---- MODULE Spec2Model ----
(***************************************************************************)
(* Calendar MCP server: the credential store (table user_credentials),     *)
(* credential resolution with token refresh (get_google_credentials), the  *)
(* calendar tools, setup_credentials, the API-key middleware of main.py    *)
(* and the OAuth consent callback and credential deletion of               *)
(* admin_app/app.py.                                                       *)
(*                                                                         *)
(* Python's None is modelled per type: an Optional value is a set with at  *)
(* most one element ({} is None), the access token None is NoToken, a NULL *)
(* text column is the empty JSON document.  Header strings are sequences   *)
(* of words, so that str.replace("Bearer ", "") has something to remove.   *)
(***************************************************************************)
EXTENDS Integers, Sequences, FiniteSets, TLC

\* ---------------------------------------------------------------- bounds
NInv == 2          \* concurrent request tasks of the MCP server
MaxReq == 3        \* requests the MCP server accepts in one behaviour
MaxConsent == 1    \* consent callbacks the admin app handles in one behaviour
MaxTok == 2        \* access tokens the identity provider issues in one behaviour
MaxRows == 2       \* rows ever inserted (values of the autoincrement id)
MaxClock == 1      \* ticks of the wall clock
MaxItems == 1      \* elements of a list in a provider response

\* ------------------------------------------------------------- constants
NoToken == 0                       \* Credentials.token is None
DefaultUser == "default"           \* main.py:91, user_id: str = "default"
Users == {DefaultUser, "u1"}
ClientIds == {"cA"}
ClientSecrets == {"sA"}
EnvClientId == "cE"                \* GOOGLE_CLIENT_ID of the admin app
EnvClientSecret == "sE"            \* GOOGLE_CLIENT_SECRET of the admin app
NoneStr == "None"                  \* a NULL refresh_token column
EmptyStr == ""
SetupRefreshTokens == {EmptyStr, "rt1"}
ConsentRefreshTokens == {"rt2"}

CalendarTools == {"list_calendars", "find_events", "create_event", "quick_add_event",
                  "update_event", "delete_event", "query_free_busy", "create_calendar"}

Paths == {"/", "/health", "/mcp"}
Bearer == "Bearer "
\* request headers: X-API-Key and Authorization, each absent ({}) or a string
HeaderSets == { [xkey |-> {}, auth |-> {}],
                [xkey |-> {<<"k1">>}, auth |-> {}],
                [xkey |-> {<<"k2">>}, auth |-> {}],
                [xkey |-> {}, auth |-> {<<Bearer, "k1">>}],
                [xkey |-> {<<>>}, auth |-> {<<Bearer, "k2">>}] }
\* CALENDAR_MCP_SERVER_API_KEY: unset, set to the empty string, or set to k1
SecretConfigs == { {}, {<<>>}, {<<"k1">>} }

VARIABLES
    store,        \* rows of user_credentials
    nextId,       \* next value of the autoincrement primary key
    now,          \* wall clock
    nextTok,      \* next access token the identity provider issues
    expired,      \* access tokens the provider no longer accepts
    expected_key, \* os.getenv("CALENDAR_MCP_SERVER_API_KEY")
    inv,          \* the request tasks of the MCP server
    nReq,         \* requests accepted so far
    adm,          \* the admin app's consent callback
    nAdm,         \* consent callbacks handled so far
    last,         \* history: per user, the last committed write of the token column
    issued        \* history: per access token, the client and refresh token it was issued for

vars == <<store, nextId, now, nextTok, expired, expected_key, inv, nReq, adm, nAdm, last, issued>>

Inv == 1..NInv

\* ------------------------------------------------------------ Python values
Truthy(opt) == opt # {} /\ opt # {<<>>}

\* a or b on Optional strings
Or(a, b) == IF Truthy(a) THEN a ELSE b

\* headers.get(name, default)
Get(h, default) == IF h = {} THEN default ELSE h

\* s.replace("Bearer ", "")
StripBearer(opt) == { SelectSeq(s, LAMBDA w : w # Bearer) : s \in opt }

\* json.dumps({"access_token": t})
json_dumps(t) == { <<"access_token", t>> }

\* the text of a NULL / empty token column: json.loads is skipped, {} is used
NullText == {}

\* token_data.get("access_token")
AccessTokenOf(doc) ==
    IF \E p \in doc : p[1] = "access_token"
    THEN (CHOOSE p \in doc : p[1] = "access_token")[2]
    ELSE NoToken

\* a refresh_token string that Python treats as true
HasRefresh(rt) == rt # NoneStr /\ rt # EmptyStr

\* ------------------------------------------------------------------ store
\* a row of user_credentials (created_at, set once at INSERT and never read, is left out)
Row(id, uid, cid, cs, tokdoc, rt, updated) ==
    [id |-> id, user_id |-> uid, client_id |-> cid, client_secret |-> cs,
     token |-> tokdoc, refresh_token |-> rt, updated_at |-> updated]

\* select(UserCredentials).where(user_id == uid) ... scalar_one_or_none()
SelectUser(uid) == { r \in store : r.user_id = uid }

\* mutant: user_id is declared without unique=True
NoUniqueConstraint(uid) == TRUE

\* the unique constraint on user_id: an INSERT of uid is accepted
UniqueOk(uid) == \A r \in store : r.user_id # uid

\* mutant: the UPDATE is restricted to rows whose token column is still empty
UpdateTokensIfUnset(uid, tok) ==
    { IF r.user_id = uid /\ r.token = NullText
      THEN [r EXCEPT !.token = json_dumps(tok), !.updated_at = now]
      ELSE r : r \in store }

\* mutant: the refresh write inserts a row when the UPDATE matches none
UpsertTokens(uid, tok) ==
    IF \E r \in store : r.user_id = uid
    THEN { IF r.user_id = uid
           THEN [r EXCEPT !.token = json_dumps(tok), !.updated_at = now]
           ELSE r : r \in store }
    ELSE store \cup { Row(nextId, uid, EmptyStr, EmptyStr, json_dumps(tok), NoneStr, now) }

\* update(UserCredentials).where(user_id == uid).values(token=..., updated_at=...)
UpdateTokens(uid, tok) ==
    { IF r.user_id = uid
      THEN [r EXCEPT !.token = json_dumps(tok), !.updated_at = now]
      ELSE r : r \in store }

\* ------------------------------------------------------------- credentials
\* mutant: the credential object is built without the stored access token
CredentialsWithoutToken(r) ==
    [token |-> NoToken, refresh_token |-> r.refresh_token,
     client_id |-> r.client_id, client_secret |-> r.client_secret]

\* Credentials(token=..., refresh_token=..., client_id=..., client_secret=...)
Credentials(r) ==
    [token |-> AccessTokenOf(r.token), refresh_token |-> r.refresh_token,
     client_id |-> r.client_id, client_secret |-> r.client_secret]

\* what the token endpoint is given when it issues an access token: the
\* client and the refresh token (or the grant that yields it)
Grant(c) ==
    [client_id |-> c.client_id, client_secret |-> c.client_secret,
     refresh_token |-> c.refresh_token]

\* mutant: every stored token is treated as stale
ValidNever(c) == FALSE

\* credentials.valid: token is not None and not expired; the object is built
\* without an expiry, and a credential without expiry never reports expired
Valid(c) == c.token # NoToken

\* ----------------------------------------------------------------- tasks
\* found: the select returned a row; cred: the credential object the task holds;
\* ret: what get_google_credentials returned; refresh: how the exchange ended;
\* readTok, expiredAtRead (history): the access token the select found, and
\* whether the provider had expired it by then;
\* exch, writes, calls (history): refresh exchanges, store commits, provider requests;
\* matched (history): the number of rows the task's UPDATE matched;
\* resp: the provider response the tool shapes; out: the object the tool returns
Idle == [pc |-> "idle", path |-> "/", hdr |-> [xkey |-> {}, auth |-> {}], tool |-> "none",
         args |-> {}, found |-> FALSE, readTok |-> NoToken, expiredAtRead |-> FALSE,
         cred |-> {}, ret |-> {}, refresh |-> "none", exch |-> 0, writes |-> 0, calls |-> 0,
         matched |-> {}, resp |-> {}, out |-> {}, result |-> "none"]

AdmIdle == [pc |-> "idle", user_id |-> DefaultUser, cred |-> {}, existing |-> FALSE]

NoWrite == [kind |-> "none", by |-> 0, tok |-> NoToken]

Init ==
    /\ store = {}
    /\ nextId = 1
    /\ now = 0
    /\ nextTok = 1
    /\ expired = {}
    /\ expected_key \in SecretConfigs
    /\ inv = [i \in Inv |-> Idle]
    /\ nReq = 0
    /\ adm = AdmIdle
    /\ nAdm = 0
    /\ last = [u \in Users |-> NoWrite]
    /\ issued = [t \in 1..MaxTok |-> {}]

\* ------------------------------------------------------------- middleware
\* api_key = headers.get("X-API-Key") or headers.get("Authorization", "").replace("Bearer ", "")
ApiKey(h) == Or(h.xkey, StripBearer(Get(h.auth, {<<>>})))

\* mutant: a request that carries no key at all is let through
MiddlewarePassesKeyless(path, h) ==
    \/ path \in {"/", "/health"}
    \/ ~Truthy(expected_key)
    \/ ~Truthy(ApiKey(h))
    \/ ApiKey(h) = expected_key

\* ApiKeyAuthMiddleware.dispatch: TRUE when call_next(request) is reached
MiddlewarePasses(path, h) ==
    \/ path \in {"/", "/health"}
    \/ ~Truthy(expected_key)
    \/ ApiKey(h) = expected_key

\* a request arrives and ApiKeyAuthMiddleware.dispatch answers it: 401, or
\* call_next, which serves "/" and "/health" and routes "/mcp" to the tools
Request(i) ==
    /\ inv[i].pc = "idle"
    /\ \A j \in Inv : j < i => inv[j].pc # "idle"
    /\ nReq < MaxReq
    /\ \E path \in Paths, h \in HeaderSets :
         inv' = [inv EXCEPT ![i] =
                   [Idle EXCEPT !.path = path, !.hdr = h,
                                !.pc = IF ~MiddlewarePasses(path, h) THEN "rejected"
                                       ELSE IF path # "/mcp" THEN "served"
                                       ELSE "dispatch"]]
    /\ nReq' = nReq + 1
    /\ UNCHANGED <<store, nextId, now, nextTok, expired, expected_key, adm, nAdm, last, issued>>

\* the arguments of a setup_credentials call
SetupArgs ==
    { [client_id |-> c, client_secret |-> s, refresh_token |-> rt, user_id |-> u] :
        c \in ClientIds, s \in ClientSecrets, rt \in SetupRefreshTokens, u \in Users }

\* ------------------------------------------------- get_google_credentials
NeedsRefresh(c) == ~Valid(c) /\ HasRefresh(c.refresh_token)

\* mutant: the select has no WHERE clause and takes whichever row it finds
ResolveAnyUser(i, tool) ==
    LET snap == store
        t == [Idle EXCEPT !.tool = tool] IN
      IF snap = {}
      THEN [t EXCEPT !.found = FALSE, !.ret = {}, !.pc = "call"]
      ELSE LET c == Credentials(CHOOSE r \in snap : TRUE) IN
           [t EXCEPT !.found = TRUE,
                     !.readTok = c.token,
                     !.expiredAtRead = (c.token \in expired),
                     !.cred = {c},
                     !.ret = IF NeedsRefresh(c) THEN {} ELSE {c},
                     !.pc = IF NeedsRefresh(c) THEN "refresh" ELSE "call"]

\* lines 93-115, up to the first point where the coroutine waits on something
\* other tasks can change: the select, the credential object, the validity check
Resolve(i, tool) ==
    LET snap == SelectUser(DefaultUser)
        t == [Idle EXCEPT !.tool = tool] IN
      IF snap = {}
      THEN [t EXCEPT !.found = FALSE, !.ret = {}, !.pc = "call"]
      ELSE LET c == Credentials(CHOOSE r \in snap : TRUE) IN
           [t EXCEPT !.found = TRUE,
                     !.readTok = c.token,
                     !.expiredAtRead = (c.token \in expired),
                     !.cred = {c},
                     !.ret = IF NeedsRefresh(c) THEN {} ELSE {c},
                     !.pc = IF NeedsRefresh(c) THEN "refresh" ELSE "call"]

\* the server dispatches the calendar tool the request names, one of `tools`;
\* the tool calls get_google_credentials(), which selects the row of the default user
ToolStart(i, tools) ==
    /\ inv[i].pc = "dispatch"
    /\ \E tool \in tools : inv' = [inv EXCEPT ![i] = Resolve(i, tool)]
    /\ UNCHANGED <<store, nextId, now, nextTok, expired, expected_key, nReq, adm, nAdm, last, issued>>

\* mutant: a failed exchange is logged and the function goes on to the UPDATE
RefreshSwallowsFailure(i) ==
    /\ inv[i].pc = "refresh"
    /\ \E out \in {"ok", "RefreshError", "Exception"} :
         /\ out = "ok" => nextTok <= MaxTok
         /\ inv' = [inv EXCEPT ![i].cred = IF out = "ok"
                                           THEN { [c EXCEPT !.token = nextTok] : c \in inv[i].cred }
                                           ELSE inv[i].cred,
                               ![i].refresh = out,
                               ![i].exch = @ + 1,
                               ![i].pc = "update"]
         /\ nextTok' = IF out = "ok" THEN nextTok + 1 ELSE nextTok
         /\ issued' = IF out = "ok"
                      THEN [issued EXCEPT ![nextTok] = { Grant(c) : c \in inv[i].cred }]
                      ELSE issued
    /\ UNCHANGED <<store, nextId, now, expired, expected_key, nReq, adm, nAdm, last>>

\* line 117, credentials.refresh(Request()): the exchange with the token
\* endpoint ends with a new access token, with RefreshError (line 129) or
\* with another exception (line 134); both failures return None
RefreshOutcomes == {"ok", "RefreshError", "Exception"}

Refresh(i) ==
    /\ inv[i].pc = "refresh"
    /\ \E out \in RefreshOutcomes :
         IF out = "ok"
         THEN /\ nextTok <= MaxTok
              /\ inv' = [inv EXCEPT ![i].cred = { [c EXCEPT !.token = nextTok] : c \in inv[i].cred },
                                    ![i].refresh = out,
                                    ![i].exch = @ + 1,
                                    ![i].pc = "update"]
              /\ nextTok' = nextTok + 1
              /\ issued' = [issued EXCEPT ![nextTok] = { Grant(c) : c \in inv[i].cred }]
         ELSE /\ inv' = [inv EXCEPT ![i].refresh = out,
                                    ![i].exch = @ + 1,
                                    ![i].ret = {},
                                    ![i].pc = "call"]
              /\ UNCHANGED <<nextTok, issued>>
    /\ UNCHANGED <<store, nextId, now, expired, expected_key, nReq, adm, nAdm, last>>

\* lines 119-133: the UPDATE of token and updated_at, the commit, the return
RefreshWrite(i) ==
    /\ inv[i].pc = "update"
    /\ LET c == CHOOSE c \in inv[i].cred : TRUE IN
         /\ store' = UpdateTokens(DefaultUser, c.token)
         /\ last' = IF SelectUser(DefaultUser) # {}
                    THEN [last EXCEPT ![DefaultUser] = [kind |-> "refresh", by |-> i, tok |-> c.token]]
                    ELSE last
         /\ inv' = [inv EXCEPT ![i].writes = @ + 1, ![i].ret = {c}, ![i].pc = "call",
                               ![i].matched = {Cardinality(SelectUser(DefaultUser))}]
    /\ UNCHANGED <<nextId, now, nextTok, expired, expected_key, nReq, adm, nAdm, issued>>

\* ---------------------------------------------------------- calendar tools
\* the provider methods a tool executes, in order
ProviderRequests(tool) ==
    CASE tool = "list_calendars"  -> <<"calendarList.list">>
      [] tool = "find_events"     -> <<"events.list">>
      [] tool = "create_event"    -> <<"events.insert">>
      [] tool = "quick_add_event" -> <<"events.quickAdd">>
      [] tool = "update_event"    -> <<"events.get", "events.update">>
      [] tool = "delete_event"    -> <<"events.delete">>
      [] tool = "query_free_busy" -> <<"freebusy.query">>
      [] tool = "create_calendar" -> <<"calendars.insert">>
      [] OTHER                    -> <<>>

\* mutant: every tool is taken to execute a single request
RequestsOfSingle(tool) == 1

RequestsOf(tool) == Len(ProviderRequests(tool))

\* the keys a tool reads with .get from an event resource it created or changed
EventResultKeys == {"id", "summary", "start", "end", "htmlLink"}

\* the keys list_calendars reads from an entry of the calendar list
CalendarKeys == {"id", "summary", "description", "accessRole", "primary"}

\* the keys find_events reads from an event
EventKeys == {"id", "summary", "description", "start", "end", "location", "attendees"}

\* the keys create_calendar reads from the calendar resource
CreatedCalendarKeys == {"id", "summary", "description"}

\* the fields of a free/busy response the request asks for
FreeBusyFields == {"timeMin", "timeMax", "calendars"}

\* a field of a provider response that no tool names
UnknownField == "etag"

\* a JSON object, as far as its field names go: the names of the object itself
\* and, for each element of the list it carries, the names of that element
Object(top, items) == [top |-> top, items |-> items]

\* the fields of the top-level object and of the list elements a tool reads
ItemKeys(tool) ==
    CASE tool = "list_calendars" -> CalendarKeys
      [] tool = "find_events"    -> EventKeys
      [] OTHER                   -> {}

TopKeys(tool) ==
    CASE tool \in {"list_calendars", "find_events"} -> {"items"}
      [] tool \in {"create_event", "quick_add_event", "update_event"} -> EventResultKeys
      [] tool = "create_calendar" -> CreatedCalendarKeys
      [] tool = "query_free_busy" -> FreeBusyFields
      [] OTHER                    -> {}

\* what .execute() of the tool's last request can return: the fields the
\* tool knows, without one of them, or with a field it does not know, in the
\* object itself and in the elements of its list (at most MaxItems of them)
Responses(tool) ==
    LET tops == { TopKeys(tool), TopKeys(tool) \cup {UnknownField},
                  TopKeys(tool) \ {"id", "items", "calendars"} }
        elems == { ItemKeys(tool), ItemKeys(tool) \cup {UnknownField},
                   ItemKeys(tool) \ {"primary", "attendees"} }
        lists == IF ItemKeys(tool) = {} THEN { <<>> }
                 ELSE UNION { [1..n -> elems] : n \in 0..MaxItems } IN
      { Object(t, IF "items" \in t \/ ItemKeys(tool) = {} THEN l ELSE <<>>) :
          t \in tops, l \in lists }

\* the object a tool passes to json.dumps: a dict literal built with .get
\* has its keys whatever the response carries (a missing field is null, or the
\* default); x.get("items", []) is the list, empty when the field is missing;
\* query_free_busy passes the response itself
Output(tool, resp) ==
    CASE tool = "list_calendars" ->
           Object({"calendars"}, [k \in DOMAIN resp.items |-> CalendarKeys])
      [] tool = "find_events" ->
           Object({"events"}, [k \in DOMAIN resp.items |-> EventKeys])
      [] tool \in {"create_event", "quick_add_event", "update_event"} ->
           Object(EventResultKeys, <<>>)
      [] tool = "delete_event" -> Object({"success"}, <<>>)
      [] tool = "query_free_busy" -> resp
      [] tool = "create_calendar" -> Object(CreatedCalendarKeys, <<>>)
      [] OTHER -> Object({}, <<>>)

\* mutant: the tool does not test what get_google_credentials returned
CallWithoutCheck(i) ==
    /\ inv[i].pc = "call"
    /\ \E ok \in BOOLEAN :
         inv' = [inv EXCEPT ![i].calls = @ + 1,
                            ![i].result = IF ok THEN "ok" ELSE "error",
                            ![i].pc = IF ok /\ inv[i].calls + 1 < RequestsOf(inv[i].tool)
                                      THEN "call" ELSE "done"]
    /\ UNCHANGED <<store, nextId, now, nextTok, expired, expected_key, nReq, adm, nAdm, last, issued>>

\* the tool after get_google_credentials returned: None raises before the
\* service is built; a credential without a token cannot authorize a request
\* (the transport refuses it before the API request is sent); otherwise
\* .execute() sends one API request, which the provider answers or fails;
\* the answer to the tool's last request is shaped and returned
Call(i) ==
    /\ inv[i].pc = "call"
    /\ IF inv[i].ret = {} \/ (\E c \in inv[i].ret : c.token = NoToken)
       THEN inv' = [inv EXCEPT ![i].result = "error", ![i].pc = "done"]
       ELSE \E ok \in BOOLEAN, resp \in Responses(inv[i].tool) :
              LET more == ok /\ inv[i].calls + 1 < RequestsOf(inv[i].tool)
                  returns == ok /\ ~more IN
              inv' = [inv EXCEPT ![i].calls = @ + 1,
                                 ![i].result = IF ok THEN "ok" ELSE "error",
                                 ![i].resp = IF returns THEN {resp} ELSE {},
                                 ![i].out = IF returns THEN {Output(inv[i].tool, resp)} ELSE {},
                                 ![i].pc = IF more THEN "call" ELSE "done"]
    /\ UNCHANGED <<store, nextId, now, nextTok, expired, expected_key, nReq, adm, nAdm, last, issued>>

\* the response is sent; the task ends
Finish(i) ==
    /\ inv[i].pc \in {"done", "rejected", "served"}
    /\ inv' = [inv EXCEPT ![i] = Idle]
    /\ UNCHANGED <<store, nextId, now, nextTok, expired, expected_key, nReq, adm, nAdm, last, issued>>

\* ------------------------------------------------------- setup_credentials
\* the server dispatches setup_credentials; lines 498-503, the select of the existing row
SetupStart(i) ==
    /\ inv[i].pc = "dispatch"
    /\ \E a \in SetupArgs :
         inv' = [inv EXCEPT ![i] = [Idle EXCEPT !.tool = "setup_credentials", !.args = {a},
                                                !.found = (SelectUser(a.user_id) # {}),
                                                !.pc = "setup_commit"]]
    /\ UNCHANGED <<store, nextId, now, nextTok, expired, expected_key, nReq, adm, nAdm, last, issued>>

\* update(UserCredentials).where(user_id == uid).values(client_id=..., ...)
UpdateSetup(a) ==
    { IF r.user_id = a.user_id
      THEN [r EXCEPT !.client_id = a.client_id, !.client_secret = a.client_secret,
                     !.refresh_token = a.refresh_token, !.updated_at = now]
      ELSE r : r \in store }

\* lines 505-527: UPDATE when a row was found, INSERT otherwise, then commit;
\* an INSERT the unique constraint rejects raises and leaves the table as it was
SetupCommit(i) ==
    /\ inv[i].pc = "setup_commit"
    /\ LET a == CHOOSE a \in inv[i].args : TRUE IN
         IF inv[i].found
         THEN /\ store' = UpdateSetup(a)
              /\ inv' = [inv EXCEPT ![i].writes = @ + 1, ![i].result = "ok", ![i].pc = "done"]
              /\ UNCHANGED <<nextId, last>>
         ELSE /\ nextId <= MaxRows
              /\ nextId' = nextId + 1
              /\ IF UniqueOk(a.user_id)
                 THEN /\ store' = store \cup { Row(nextId, a.user_id, a.client_id, a.client_secret,
                                                    NullText, a.refresh_token, now) }
                      /\ last' = [last EXCEPT ![a.user_id] = NoWrite]
                      /\ inv' = [inv EXCEPT ![i].writes = @ + 1, ![i].result = "ok", ![i].pc = "done"]
                 ELSE /\ inv' = [inv EXCEPT ![i].result = "error", ![i].pc = "done"]
                      /\ UNCHANGED <<store, last>>
    /\ UNCHANGED <<now, nextTok, expired, expected_key, nReq, adm, nAdm, issued>>

\* ---------------------------------------------------------------- admin app
\* oauth2callback, lines 128-149: the code is exchanged for the tokens
ConsentFetch ==
    /\ adm.pc = "idle"
    /\ nAdm < MaxConsent
    /\ nextTok <= MaxTok
    /\ \E u \in Users, rt \in ConsentRefreshTokens :
         adm' = [AdmIdle EXCEPT !.pc = "cb_select", !.user_id = u,
                    !.cred = { [token |-> nextTok, refresh_token |-> rt,
                                client_id |-> EnvClientId, client_secret |-> EnvClientSecret] }]
    /\ nextTok' = nextTok + 1
    /\ issued' = [issued EXCEPT ![nextTok] = { Grant(c) : c \in adm'.cred }]
    /\ nAdm' = nAdm + 1
    /\ UNCHANGED <<store, nextId, now, expired, expected_key, inv, nReq, last>>

\* lines 151-154
ConsentSelect ==
    /\ adm.pc = "cb_select"
    /\ adm' = [adm EXCEPT !.existing = (SelectUser(adm.user_id) # {}), !.pc = "cb_commit"]
    /\ UNCHANGED <<store, nextId, now, nextTok, expired, expected_key, inv, nReq, nAdm, last, issued>>

\* update(UserCredentials).where(user_id == uid).values(client_id=..., token=..., ...);
\* updated_at has onupdate=now()
UpdateConsent(uid, c) ==
    { IF r.user_id = uid
      THEN [r EXCEPT !.client_id = c.client_id, !.client_secret = c.client_secret,
                     !.token = json_dumps(c.token), !.refresh_token = c.refresh_token,
                     !.updated_at = now]
      ELSE r : r \in store }

\* lines 156-179
ConsentCommit ==
    /\ adm.pc = "cb_commit"
    /\ LET c == CHOOSE c \in adm.cred : TRUE
           u == adm.user_id
           w == [kind |-> "consent", by |-> 0, tok |-> c.token] IN
         IF adm.existing
         THEN /\ store' = UpdateConsent(u, c)
              /\ last' = IF SelectUser(u) # {} THEN [last EXCEPT ![u] = w] ELSE last
              /\ UNCHANGED nextId
         ELSE /\ nextId <= MaxRows
              /\ nextId' = nextId + 1
              /\ IF UniqueOk(u)
                 THEN /\ store' = store \cup { Row(nextId, u, c.client_id, c.client_secret,
                                                    json_dumps(c.token), c.refresh_token, now) }
                      /\ last' = [last EXCEPT ![u] = w]
                 ELSE UNCHANGED <<store, last>>
    /\ adm' = AdmIdle
    /\ UNCHANGED <<now, nextTok, expired, expected_key, inv, nReq, nAdm, issued>>

\* delete_credentials, lines 198-202
DeleteCredentials ==
    /\ \E cred_id \in 1..MaxRows :
         /\ store' = { r \in store : r.id # cred_id }
         /\ last' = [u \in Users |-> IF \E r \in store : r.id = cred_id /\ r.user_id = u
                                     THEN NoWrite ELSE last[u]]
    /\ UNCHANGED <<nextId, now, nextTok, expired, expected_key, inv, nReq, adm, nAdm, issued>>

\* -------------------------------------------------------------- environment
\* time passes
Tick ==
    /\ now < MaxClock
    /\ \E r \in store : r.updated_at = now
    /\ now' = now + 1
    /\ UNCHANGED <<store, nextId, nextTok, expired, expected_key, inv, nReq, adm, nAdm, last, issued>>

\* the provider stops accepting an access token it issued
Expire ==
    /\ \E t \in 1..(nextTok - 1) :
         /\ t \notin expired
         /\ \E r \in store : AccessTokenOf(r.token) = t
         /\ expired' = expired \cup {t}
    /\ UNCHANGED <<store, nextId, now, nextTok, expected_key, inv, nReq, adm, nAdm, last, issued>>

\* a request that the middleware hands on to the tools
Accept(i) == Request(i) /\ inv'[i].pc = "dispatch"

\* the tools the lifecycle specification dispatches: one with a single
\* provider request and the one with two
LifecycleTools == {"list_calendars", "update_event"}

\* the server is configured with the key k1
InitKeyed == Init /\ expected_key = {<<"k1">>}

\* the credential lifecycle: accepted requests, the store, the admin app, time
Next ==
    \/ \E i \in Inv : Accept(i)
    \/ \E i \in Inv : ToolStart(i, LifecycleTools)
    \/ \E i \in Inv : Refresh(i)
    \/ \E i \in Inv : RefreshWrite(i)
    \/ \E i \in Inv : Call(i)
    \/ \E i \in Inv : Finish(i)
    \/ \E i \in Inv : SetupStart(i)
    \/ \E i \in Inv : SetupCommit(i)
    \/ ConsentFetch
    \/ ConsentSelect
    \/ ConsentCommit
    \/ DeleteCredentials
    \/ Tick
    \/ Expire

Spec == InitKeyed /\ [][Next]_vars

\* every calendar tool, against a store that setup and consent fill
NextTools ==
    \/ \E i \in Inv : Accept(i)
    \/ \E i \in Inv : ToolStart(i, CalendarTools)
    \/ \E i \in Inv : Refresh(i)
    \/ \E i \in Inv : RefreshWrite(i)
    \/ \E i \in Inv : Call(i)
    \/ \E i \in Inv : Finish(i)
    \/ \E i \in Inv : SetupStart(i)
    \/ \E i \in Inv : SetupCommit(i)
    \/ ConsentFetch
    \/ ConsentSelect
    \/ ConsentCommit

SpecTools == InitKeyed /\ [][NextTools]_vars

\* the gate: every request, under every configuration of the secret
NextGate ==
    \/ \E i \in Inv : Request(i)
    \/ \E i \in Inv : ToolStart(i, CalendarTools)
    \/ \E i \in Inv : Call(i)
    \/ \E i \in Inv : Finish(i)

SpecGate == Init /\ [][NextGate]_vars

\* ------------------------------------------------------------------ claims
\* get_google_credentials has returned to the calendar tool of task i
Resolved(i) == inv[i].tool \in CalendarTools /\ inv[i].pc \in {"call", "done"}

\* the refresh token of the row task i selected
ReadRefresh(i) == (CHOOSE c \in inv[i].cred : TRUE).refresh_token

\* the row task i selected had no usable access token: none, or one the
\* provider had expired
StaleAtRead(i) == inv[i].found /\ (inv[i].readTok = NoToken \/ inv[i].expiredAtRead)

\* the row task i selected had an access token the provider still accepted
ValidAtRead(i) == inv[i].found /\ inv[i].readTok # NoToken /\ ~inv[i].expiredAtRead

RefreshFailed(i) == inv[i].refresh \in {"RefreshError", "Exception"}

\* C1 (as claimed): a resolution that finds an expired or absent access token
\* and a refresh token, and whose exchange does not fail, has made exactly one
\* refresh exchange and exactly one store write.
C1_StaleTokenIsRefreshedOnce ==
    \A i \in Inv :
        (Resolved(i) /\ StaleAtRead(i) /\ HasRefresh(ReadRefresh(i)) /\ ~RefreshFailed(i))
            => (inv[i].exch = 1 /\ inv[i].writes = 1)

\* C2: a resolution that finds a valid (present, not expired) access token
\* returns the credential built from the row, with that token, and has made
\* no refresh exchange and no store write.
C2_ValidTokenNoWrite ==
    \A i \in Inv :
        (Resolved(i) /\ ValidAtRead(i))
            => /\ inv[i].ret = inv[i].cred
               /\ \A c \in inv[i].ret : c.token = inv[i].readTok
               /\ inv[i].exch = 0
               /\ inv[i].writes = 0

C2_Witness ==
    \E i \in Inv :
        /\ inv[i].pc = "done" /\ inv[i].tool \in CalendarTools
        /\ ValidAtRead(i) /\ inv[i].ret # {} /\ inv[i].result = "ok"

\* C3 (as claimed): a resolution that finds no refresh token and an expired or
\* absent access token returns no credential to the tool, makes no refresh
\* exchange, and the tool issues no provider request.
C3_UnrefreshableFailsFast ==
    \A i \in Inv :
        (Resolved(i) /\ StaleAtRead(i) /\ ~HasRefresh(ReadRefresh(i)))
            => (inv[i].ret = {} /\ inv[i].exch = 0 /\ inv[i].calls = 0)

\* C4: when the refresh exchange fails, get_google_credentials returns None
\* after that one exchange, commits nothing, and the tool fails without a
\* provider request.
C4_RefreshFailureLeavesStore ==
    \A i \in Inv :
        (Resolved(i) /\ RefreshFailed(i))
            => /\ inv[i].ret = {}
               /\ inv[i].exch = 1
               /\ inv[i].writes = 0
               /\ inv[i].calls = 0
               /\ (inv[i].pc = "done" => inv[i].result = "error")

C4_Witness ==
    \E i \in Inv : inv[i].pc = "done" /\ inv[i].refresh = "RefreshError" /\ inv[i].result = "error"

\* C5: a tool call that finds no row for the user gets None from
\* get_google_credentials and fails without a refresh exchange, a provider
\* request or a store write.
C5_NoRecordNoCalls ==
    \A i \in Inv :
        (Resolved(i) /\ ~inv[i].found)
            => /\ inv[i].ret = {}
               /\ inv[i].exch = 0
               /\ inv[i].writes = 0
               /\ inv[i].calls = 0
               /\ (inv[i].pc = "done" => inv[i].result = "error")

C5_Witness ==
    \E i \in Inv :
        /\ inv[i].pc = "done" /\ inv[i].tool \in CalendarTools
        /\ ~inv[i].found /\ inv[i].result = "error"

\* the access token task i holds after its refresh exchange
TokenOf(i) == (CHOOSE c \in inv[i].cred : TRUE).token

\* task i commits its refresh write in this step
CommitsRefresh(i) == inv[i].pc = "update" /\ inv'[i].pc = "call"

\* C6: each resolution that observed a stale token makes its own exchange and
\* its committed write wins over the earlier ones: the write sets the access
\* token of the default user's row to the token issued to that resolution,
\* changes no other column but updated_at and no other row, and the resolution
\* returns the credential carrying that token; as long as refresh writes are the
\* last writes of the token, the row shows the token of the last one.
C6_LastRefreshWriteWins ==
    /\ [](\A r \in SelectUser(DefaultUser) :
            last[DefaultUser].kind = "refresh" => AccessTokenOf(r.token) = last[DefaultUser].tok)
    /\ [][\A i \in Inv : CommitsRefresh(i) =>
            /\ \A r \in store : r.user_id # DefaultUser => r \in store'
            /\ \A r \in SelectUser(DefaultUser) :
                 \E r2 \in store' :
                    /\ r2.id = r.id /\ r2.user_id = r.user_id
                    /\ r2.client_id = r.client_id /\ r2.client_secret = r.client_secret
                    /\ r2.refresh_token = r.refresh_token
                    /\ AccessTokenOf(r2.token) = TokenOf(i)
            /\ Cardinality(store') = Cardinality(store)
            /\ inv'[i].ret = inv[i].cred
            /\ TokenOf(i) # NoToken /\ TokenOf(i) # inv[i].readTok]_vars

C6_Witness ==
    \E i, j \in Inv :
        /\ i # j
        /\ \A k \in {i, j} : /\ Resolved(k) /\ StaleAtRead(k) /\ inv[k].refresh = "ok"
                             /\ inv[k].writes = 1 /\ inv[k].ret = inv[k].cred
        /\ TokenOf(i) # TokenOf(j)
        /\ last[DefaultUser] = [kind |-> "refresh", by |-> j, tok |-> TokenOf(j)]
        /\ \E r \in SelectUser(DefaultUser) : AccessTokenOf(r.token) = TokenOf(j)

\* C7: no two rows of the table have the same user_id (nor the same id).
C7_OneRecordPerUser ==
    \A r1, r2 \in store : (r1.user_id = r2.user_id \/ r1.id = r2.id) => r1 = r2

\* a setup_credentials call that found no row, tried the INSERT and lost to a
\* concurrent insert of the same user_id
C7_Witness ==
    /\ \E i \in Inv : /\ inv[i].tool = "setup_credentials" /\ inv[i].pc = "done"
                      /\ ~inv[i].found /\ inv[i].result = "error"
    /\ \E r \in store : r.client_id = EnvClientId

\* C8: the select of every calendar tool call sees the store as it is at that
\* moment: the token it reads is the one the last committed token write left
\* (a refresh of another call, or a consent), and a present token is the one
\* the returned credential carries.
C8_ResolutionReadsStore ==
    [][\A i \in Inv :
         (inv[i].pc = "dispatch" /\ inv'[i].tool \in CalendarTools) =>
            IF SelectUser(DefaultUser) = {}
            THEN ~inv'[i].found
            ELSE /\ inv'[i].found
                 /\ inv'[i].readTok = last[DefaultUser].tok
                 /\ \A r \in SelectUser(DefaultUser) : inv'[i].readTok = AccessTokenOf(r.token)
                 /\ inv'[i].readTok # NoToken =>
                       \E c \in inv'[i].ret : c.token = inv'[i].readTok]_vars

\* a call that made no exchange itself holds the token another call's refresh wrote
C8_Witness ==
    \E i \in Inv :
        /\ Resolved(i) /\ inv[i].found /\ inv[i].exch = 0
        /\ last[DefaultUser].kind = "refresh"
        /\ inv[i].readTok = last[DefaultUser].tok
        /\ \E c \in inv[i].ret : c.token = last[DefaultUser].tok

\* C9 (as claimed): under every configuration of the secret, a request is
\* dispatched to the tools only if the key it carries equals the secret.
C9_DispatchOnlyWithSecret ==
    \A i \in Inv : inv[i].pc = "dispatch" => ApiKey(inv[i].hdr) = expected_key

\* C9 (amended): when the secret is set to a non-empty value, a request is
\* dispatched to the tools only if the key it carries equals the secret, a
\* request to a path other than "/" and "/health" that carries another key or
\* none is answered 401, and "/" and "/health" are served whatever the key.
C9_DispatchOnlyWithSecretWhenSet ==
    Truthy(expected_key) =>
        \A i \in Inv :
            /\ inv[i].pc = "dispatch" =>
                  (inv[i].path = "/mcp" /\ ApiKey(inv[i].hdr) = expected_key)
            /\ inv[i].pc = "rejected" =>
                  (inv[i].path = "/mcp" /\ ApiKey(inv[i].hdr) # expected_key)
            /\ inv[i].pc = "served" => inv[i].path \in {"/", "/health"}

C9_Witness ==
    /\ Truthy(expected_key)
    /\ \E i, j \in Inv :
          /\ inv[i].pc = "dispatch" /\ inv[i].hdr.auth # {}
          /\ inv[j].pc = "rejected" /\ inv[j].hdr.xkey = {} /\ inv[j].hdr.auth = {}

\* the tool of task i has ended after get_google_credentials gave it a
\* credential that carries an access token
EndedWithToken(i) ==
    /\ inv[i].pc = "done" /\ inv[i].tool \in CalendarTools
    /\ \E c \in inv[i].ret : c.token # NoToken

AllowList(tool, resp) ==
    Output(tool, Object(TopKeys(tool), [k \in DOMAIN resp.items |-> ItemKeys(tool)]))

\* C11 (as claimed): whatever fields the provider's response carries, the
\* fields of the object a tool returns, and of every element of the list in
\* it, are among the fields the tool returns for a response without unknown
\* fields: a field added to the response adds no field to the output.
C11_OutputWithinAllowList ==
    \A i \in Inv : \A r \in inv[i].resp, o \in inv[i].out :
        /\ o.top \subseteq AllowList(inv[i].tool, r).top
        /\ DOMAIN o.items = DOMAIN AllowList(inv[i].tool, r).items
        /\ \A k \in DOMAIN o.items : o.items[k] \subseteq AllowList(inv[i].tool, r).items[k]

\* the values a later read of user uid's row gives to Credentials(...)
ReadBack(uid) == { Credentials(r) : r \in { r \in store' : r.user_id = uid } }

\* setup_credentials of task i commits in this step and reports success
SetupCommits(i) ==
    inv[i].pc = "setup_commit" /\ inv'[i].pc = "done" /\ inv'[i].result = "ok"

\* the consent callback commits in this step (its INSERT, if any, is accepted)
ConsentCommits ==
    adm.pc = "cb_commit" /\ adm'.pc = "idle" /\ (adm.existing \/ UniqueOk(adm.user_id))

\* the client_id, client_secret and refresh_token of credential c are those of v
SameClient(c, v) ==
    /\ c.client_id = v.client_id
    /\ c.client_secret = v.client_secret
    /\ c.refresh_token = v.refresh_token

\* C12 (as claimed): right after a credential setup commits (setup_credentials
\* reporting success, or a consent completion), whether it found a row or
\* not, a read of that user's row finds a row and gets exactly the client_id,
\* client_secret and refresh_token that were just stored.
C12_SetupRoundTrip ==
    [][/\ \A i \in Inv : SetupCommits(i) =>
              \A a \in inv[i].args :
                  /\ ReadBack(a.user_id) # {}
                  /\ \A c \in ReadBack(a.user_id) : SameClient(c, a)
       /\ ConsentCommits =>
              \A v \in adm.cred :
                  /\ ReadBack(adm.user_id) # {}
                  /\ \A c \in ReadBack(adm.user_id) : SameClient(c, v)]_vars

\* the same round trip, for the setups whose row still exists when they commit
RoundTripOfExistingRow ==
    [][/\ \A i \in Inv : (SetupCommits(i) /\ (inv[i].found => SelectUser((CHOOSE a \in inv[i].args : TRUE).user_id) # {})) =>
              \A a \in inv[i].args :
                  /\ ReadBack(a.user_id) # {}
                  /\ \A c \in ReadBack(a.user_id) : SameClient(c, a)
       /\ (ConsentCommits /\ (adm.existing => SelectUser(adm.user_id) # {})) =>
              \A v \in adm.cred :
                  /\ ReadBack(adm.user_id) # {}
                  /\ \A c \in ReadBack(adm.user_id) : SameClient(c, v)]_vars

\* the rows of user u after the step
SelectUserAfter(u) == { r \in store' : r.user_id = u }

\* this step is the INSERT of a setup_credentials call or of a consent
\* completion for user u
InsertsRow(u) ==
    \/ \E i \in Inv : /\ inv[i].pc = "setup_commit" /\ ~inv[i].found /\ inv'[i].pc = "done"
                       /\ \A a \in inv[i].args : a.user_id = u
    \/ adm.pc = "cb_commit" /\ ~adm.existing /\ adm.user_id = u /\ adm'.pc = "idle"

\* C13: a user's row that is absent (never stored, or deleted by the admin
\* app) stays absent until a setup_credentials call or a consent completion
\* inserts it; a refresh write that commits when the row it read is gone
\* matches no row and leaves the table as it is; a resolution that starts
\* while the row is absent gets None, and its tool fails without a refresh
\* exchange and without a provider request.
C13_DeletedStaysDeleted ==
    /\ [][\A u \in Users :
             (SelectUser(u) = {} /\ SelectUserAfter(u) # {}) => InsertsRow(u)]_vars
    /\ [][\A i \in Inv :
             (CommitsRefresh(i) /\ SelectUser(DefaultUser) = {}) =>
                 (store' = store /\ inv'[i].matched = {0})]_vars
    /\ [][\A i \in Inv :
             (inv[i].pc = "dispatch" /\ inv'[i].tool \in CalendarTools
                 /\ SelectUser(DefaultUser) = {}) =>
                 (~inv'[i].found /\ inv'[i].ret = {} /\ inv'[i].pc = "call")]_vars
    /\ [](\A i \in Inv :
             (inv[i].pc = "done" /\ inv[i].tool \in CalendarTools /\ ~inv[i].found) =>
                 (inv[i].result = "error" /\ inv[i].exch = 0 /\ inv[i].calls = 0))

\* one call read the row, the row was deleted, the call's refresh write then
\* matched no row; another call, which found no row, has failed; the row is
\* still absent
C13_Witness ==
    \E i, j \in Inv :
        /\ inv[i].found /\ inv[i].refresh = "ok" /\ inv[i].matched = {0} /\ Resolved(i)
        /\ inv[j].pc = "done" /\ inv[j].tool \in CalendarTools
        /\ ~inv[j].found /\ inv[j].result = "error"
        /\ SelectUser(DefaultUser) = {}

\* C14 (as claimed): in every reachable state, the access token a row stores
\* was issued for the client_id, client_secret and refresh_token the row
\* stores now.
C14_TokenIssuedForStoredClient ==
    \A r \in store :
        AccessTokenOf(r.token) # NoToken => issued[AccessTokenOf(r.token)] = { Grant(r) }

\* the rows of the users other than "default", before and after the step
OtherRows == { r \in store : r.user_id # DefaultUser }

OtherRowsAfter == { r \in store' : r.user_id # DefaultUser }

\* the row of the user "default"
DefaultRows == { r \in store : r.user_id = DefaultUser }

\* the step is one of the calendar tool call of task i
CalendarToolStep(i) ==
    /\ inv'[i] # inv[i]
    /\ inv[i].tool \in CalendarTools \/ (inv[i].pc = "dispatch" /\ inv'[i].tool \in CalendarTools)

\* C15: no step of a calendar tool call changes a row of a user other than
\* "default" or the record of that user's last token write, and what the call
\* reads is the row of "default" alone: with no such row it gets None whatever
\* other rows exist, with one it gets the credential built from that row.
C15_ToolsUseDefaultUserOnly ==
    [][\A i \in Inv : CalendarToolStep(i) =>
          /\ OtherRowsAfter = OtherRows
          /\ \A u \in Users \ {DefaultUser} : last'[u] = last[u]
          /\ inv[i].pc = "dispatch" =>
                IF DefaultRows = {}
                THEN ~inv'[i].found /\ inv'[i].ret = {} /\ inv'[i].cred = {}
                ELSE /\ inv'[i].found
                     /\ inv'[i].cred = { Credentials(r) : r \in DefaultRows }]_vars

\* a calendar tool call refreshed and wrote the row of "default" at time 1
\* while the row of another user, written at time 0 with a token, was in the
\* table; that row is as it was written
C15_Witness ==
    /\ \E i \in Inv : /\ Resolved(i) /\ inv[i].refresh = "ok" /\ inv[i].matched = {1}
                      /\ \E r \in DefaultRows : r.updated_at = 1 /\ AccessTokenOf(r.token) = TokenOf(i)
    /\ \E r \in OtherRows : r.updated_at = 0 /\ AccessTokenOf(r.token) # NoToken
====
